---- MODULE Spec2Model ----
(***************************************************************************)
(* Model of the full-screen presentation player of the lobby dashboard,    *)
(* Corpfront/src/components/FullScreenSlideshow.tsx, mounted under a       *)
(* React 18 concurrent root (Corpfront/src/main.tsx, createRoot).          *)
(*                                                                         *)
(* The component's hooks are the state.  Every handler (network            *)
(* continuation, timer callback, DOM event) is one action that commits all *)
(* the setState calls it makes (automatic batching).  The updates of a     *)
(* network continuation are rendered in a later scheduler task, and the    *)
(* useEffect callbacks of that render (cleanup of the old timers, start of *)
(* the new ones) run after its commit, before React renders anything else. *)
(* A timer callback that is already due when the continuation runs can     *)
(* therefore still run, with the closure of the previous render, after the *)
(* continuation's updates and before the cleanup that cancels the timer.   *)
(* The model keeps that window: FlushEffects is its own action, a due      *)
(* timer may fire before it, every other step waits for it.                *)
(*                                                                         *)
(* Time is counted in milliseconds and advances in steps of 6000 ms; the   *)
(* interval inputs of the model are whole seconds or non-numbers.          *)
(***************************************************************************)
EXTENDS Integers, Sequences, FiniteSets, Bags, TLC

VARIABLES
    slideshowType,    \* prop: "file" | "url"
    source,           \* prop: opaque locator
    intervalSeconds,  \* prop: raw value as passed by the host
    onClose,          \* prop: TRUE iff a close callback was supplied
    slides,           \* useState<string[]>([])
    currentIndex,     \* useState(0)
    loading,          \* useState(slideshowType === 'file')
    error,            \* useState<string | null>(null)
    loadingSlow,      \* useState(false)
    mounted,          \* the component is in the tree
    effDeps,          \* dependency values each effect last ran with
    advTimer,         \* the setInterval of the auto-advance effect
    slowTimer,        \* the setTimeout of the slow-loading effect
    orphanTimers,     \* timers still running that no effect cleanup can reach
    inflight,         \* slide-list requests issued and not yet settled
    fetchCount,       \* number of slide-list requests issued so far
    propChanges,      \* number of times the host changed a prop
    lastEvent,        \* the handler that ran last
    embedSrc,         \* const embedSrc of the last render of the url screen
    frameSrc,         \* src attribute of the <iframe> of the url screen
    adminOp,          \* admin console: the operation in progress
    adminLog,         \* admin console: the requests that operation issued
    sourceType,       \* SwitchScreenPage: useState<SourceType>('pdf')
    pptFile,          \* SwitchScreenPage: useState<File | null>(null)
    uploadedPptUrl,   \* SwitchScreenPage: useState<string | null>(null)
    embedUrl,         \* SwitchScreenPage: useState<string>('')
    isUploadingPpt,   \* SwitchScreenPage: useState(false)
    isSlideshowActive, \* SwitchScreenPage: useState(false)
    slideIntervalSeconds, \* SwitchScreenPage: useState<number>(5)
    loadingCurrentFile, \* SwitchScreenPage: useState(true)
    calls,            \* SwitchScreenPage: handler invocations awaiting a response
    switchEvent,      \* SwitchScreenPage: the handler step that ran last
    storage,          \* localStorage entry of SwitchScreenPage
    persistDeps,      \* dependency values the persist effect last ran with
    mountItem,        \* history: the localStorage entry the page found at mount
    posts,            \* PostsPage: useState<Post[]>
    deletes,          \* PostsPage: handleDelete invocations awaiting a response
    postsEvent,       \* PostsPage: the handleDelete step that ran last
    viteApiUrl,       \* import.meta.env.VITE_API_URL
    baseURL           \* baseURL of the axios instance of services/api.ts

vars == << slideshowType, source, intervalSeconds, onClose, slides,
           currentIndex, loading, error, loadingSlow, mounted, effDeps,
           advTimer, slowTimer, orphanTimers, inflight, fetchCount, propChanges,
           lastEvent, embedSrc, frameSrc, adminOp, adminLog, sourceType,
           pptFile, uploadedPptUrl, embedUrl, isUploadingPpt,
           isSlideshowActive, slideIntervalSeconds, loadingCurrentFile, calls,
           switchEvent, storage, persistDeps, mountItem, posts, deletes, postsEvent,
           viteApiUrl, baseURL >>

props == << slideshowType, source, intervalSeconds, onClose >>
hooks == << slides, currentIndex, loading, error, loadingSlow >>
timers == << advTimer, slowTimer, orphanTimers >>
rendered == << embedSrc, frameSrc >>
console == << adminOp, adminLog >>
switchHooks == << sourceType, pptFile, uploadedPptUrl, embedUrl, isUploadingPpt,
                 isSlideshowActive, slideIntervalSeconds, loadingCurrentFile >>
switchPage == << switchHooks, calls, switchEvent, storage, persistDeps, mountItem >>
postsPage == << posts, deletes, postsEvent >>
admin == << console, switchPage, postsPage >>
config == << viteApiUrl, baseURL >>
player == << props, hooks, mounted, effDeps, timers, inflight, fetchCount,
            propChanges, lastEvent, rendered >>

----------------------------------------------------------------------------
(* Bounds of the model *)

MaxSlides == 3        \* longest slide list the provider returns
MaxVersions == 2      \* distinct documents the provider may have converted
MaxPropChanges == 1   \* prop changes by the host during one mount
MaxTrailingSlashes == 2  \* slashes at the end of VITE_API_URL
MaxIntervalInput == 1000  \* largest magnitude of a numeric interval input

----------------------------------------------------------------------------
(* Values *)

NULL == "<null>"          \* JavaScript null / undefined

Max(a, b) == IF a >= b THEN a ELSE b
Min(a, b) == IF a <= b THEN a ELSE b

\* Raw interval values: undefined, NaN (Number("abc")), or an integer
Undefined == [kind |-> "undefined", val |-> 0]
NaN == [kind |-> "nan", val |-> 0]
Num(n) == [kind |-> "num", val |-> n]

\* An ordered slide list: the n images the provider rendered from document v
SlideList(v, n) == [i \in 1..n |-> <<v, i>>]
SlideLists == { SlideList(v, n) : v \in 1..MaxVersions, n \in 1..MaxSlides }

\* response.data.slides: absent, a truthy non-array, or an array (maybe empty)
Absent == [kind |-> "absent", list |-> << >>]
NotArray == [kind |-> "notArray", list |-> << >>]
ArrayOf(l) == [kind |-> "array", list |-> l]
ResponseSlides == {Absent, NotArray, ArrayOf(<< >>)} \cup { ArrayOf(l) : l \in SlideLists }

Sources == {"A", "B"}
SlideshowTypes == {"file", "url"}

NoSlidesMsg == "No slides found. Backend may need LibreOffice (PPT) or pymupdf (PDF). Check server logs."
GenericMsg == "Request failed. Is the backend running? (Check terminal and try http://localhost:8000)"
ImageErrorMsg == "Failed to load slide image"
EmbedErrorMsg == "Failed to load embed URL"

\* err.response?.data?.detail and err.message as the transport may deliver them
Details == {NULL, "", "Conversion failed"}
Messages == {NULL, "", "Network Error"}

----------------------------------------------------------------------------
(* Pure functions of the component *)

\* Number(intervalSeconds) || 5, with the parameter default intervalSeconds = 5
NumberOr5(x) ==
    CASE x.kind = "undefined" -> Num(5)
      [] x.kind = "nan" -> Num(5)
      [] OTHER -> IF x.val = 0 THEN Num(5) ELSE x

\* variant: Math.max(1, Number(intervalSeconds) || 5), no upper clamp
IntervalSec_NoUpperClamp(x) ==
    Max(1, NumberOr5(x).val)

\* const intervalSec = Math.max(1, Math.min(300, Number(intervalSeconds) || 5))
IntervalSec(x) ==
    Max(1, Min(300, NumberOr5(x).val))

\* const intervalMs = intervalSec * 1000
IntervalMs(x) == IntervalSec(x) * 1000

\* const ms = Math.max(1000, intervalMs)
TimerMs(x) == Max(1000, IntervalMs(x))

\* variant: err.message ?? err.response?.data?.detail ?? '<generic hint>'
ErrorMessage_MessageFirst(detail, message) ==
    IF message # NULL THEN message
    ELSE IF detail # NULL THEN detail
    ELSE GenericMsg

\* err.response?.data?.detail ?? err.message ?? '<generic hint>', then String(msg)
ErrorMessage(detail, message) ==
    IF detail # NULL THEN detail
    ELSE IF message # NULL THEN message
    ELSE GenericMsg

\* JavaScript truthiness of the error state in `if (error)`
Truthy(e) == e # NULL /\ e # ""

\* response.data.slides && Array.isArray(response.data.slides) && .length > 0
UsableSlides(r) == r.kind = "array" /\ Len(r.list) > 0

\* Which screen the render function returns
PhaseOf(type, ld, slow, err, sl) ==
    IF type = "url" THEN "Embed"
    ELSE IF ld THEN (IF slow THEN "SlowLoading" ELSE "Loading")
    ELSE IF Truthy(err) THEN "Error"
    ELSE IF Len(sl) = 0 THEN "NoSlides"
    ELSE "Ready"

Phase == PhaseOf(slideshowType, loading, loadingSlow, error, slides)

\* The close button is part of the url screen and of the slide screen only
CloseRendered == onClose /\ Phase \in {"Embed", "Ready"}

----------------------------------------------------------------------------
(* Effects *)

LoadDeps == << slideshowType, source >>
SlowDeps == << loading >>
AdvDeps == << Len(slides), IntervalMs(intervalSeconds) >>

NoTimer == [live |-> FALSE, len |-> 0, ms |-> 0, elapsed |-> 0]

\* variant: the load effect also reruns once an error has been recorded
LoadChanged_Retry ==
    ~effDeps.ran \/ effDeps.load # LoadDeps \/ (~loading /\ Truthy(error))

\* an effect runs after the first render and whenever a dependency changed
LoadChanged == ~effDeps.ran \/ effDeps.load # LoadDeps
SlowChanged == ~effDeps.ran \/ effDeps.slow # SlowDeps
AdvChanged == ~effDeps.ran \/ effDeps.adv # AdvDeps

EffectsPending == mounted /\ (LoadChanged \/ SlowChanged \/ AdvChanged)

\* setTimeout(() => setLoadingSlow(true), 12000)
SlowDelayMs == 12000
\* granularity of the clock: half the slow-loading delay
ClockStepMs == SlowDelayMs \div 2

\* the handler that ran last, with the slide list it was handed and the number
\* of setState calls it made while the component was unmounted
Event(kind, list, late) == [kind |-> kind, list |-> list, late |-> late]

----------------------------------------------------------------------------
(* Initial state: the first render has committed, no effect has run yet *)

\* interval props the host passes in the state machine: one and two clock steps
HostIntervals == {Num(ClockStepMs \div 1000), Num(SlowDelayMs \div 1000)}

InitHooks ==
    /\ slides = << >>
    /\ currentIndex = 0
    /\ loading = (slideshowType = "file")
    /\ error = NULL
    /\ loadingSlow = FALSE

\* admin console: no operation started
NoOp == [op |-> "none", pc |-> "idle"]

InitAdminConsole ==
    /\ adminOp = NoOp
    /\ adminLog = << >>

\* SwitchScreenPage: no handler step yet
NoSwitchEvent == [kind |-> "none", ep |-> "none", status |-> 0 - 1,
                  issued |-> "none", toast |-> "none"]

\* the persist effect has not run: there are no previous dependency values
NotRun == [sourceType |-> NULL, embedUrl |-> << >>, slideIntervalSeconds |-> 0]

\* localStorage.getItem(STORAGE_KEY) === null
NoItem == [kind |-> "absent"]

\* the useState initial values of SwitchScreenPage; nothing stored, no effect
\* has run
InitSwitchHooks ==
    /\ sourceType = "pdf"
    /\ pptFile = NULL
    /\ uploadedPptUrl = NULL
    /\ embedUrl = << >>
    /\ isUploadingPpt = FALSE
    /\ isSlideshowActive = FALSE
    /\ slideIntervalSeconds = 5
    /\ loadingCurrentFile = TRUE

InitSwitchPage ==
    /\ InitSwitchHooks
    /\ calls = EmptyBag
    /\ switchEvent = NoSwitchEvent
    /\ storage = NoItem
    /\ persistDeps = NotRun
    /\ mountItem = NoItem

\* PostsPage: no handleDelete step yet
NoPostsEvent == [kind |-> "none", id |-> 0, ep |-> "none", status |-> 0 - 1,
                 toast |-> "none"]

InitPostsPage ==
    /\ posts = << >>
    /\ deletes = EmptyBag
    /\ postsEvent = NoPostsEvent

InitAdmin ==
    /\ InitAdminConsole
    /\ InitSwitchPage
    /\ InitPostsPage

\* import.meta.env.VITE_API_URL not defined; services/api.ts not yet loaded
NoEnv == [set |-> FALSE, str |-> << >>]

InitConfig ==
    /\ viteApiUrl = NoEnv
    /\ baseURL = << >>

InitRuntime ==
    /\ mounted = TRUE
    /\ effDeps = [ran |-> FALSE, load |-> LoadDeps, slow |-> SlowDeps,
                  adv |-> AdvDeps]
    /\ advTimer = NoTimer
    /\ slowTimer = NoTimer
    /\ orphanTimers = 0
    /\ inflight = {}
    /\ fetchCount = 0
    /\ propChanges = 0
    /\ lastEvent = Event("Mount", << >>, 0)
    /\ embedSrc = << >>
    /\ frameSrc = << >>

Init ==
    /\ slideshowType \in SlideshowTypes
    /\ source \in Sources
    /\ intervalSeconds \in HostIntervals
    /\ onClose \in BOOLEAN
    /\ InitHooks
    /\ InitRuntime
    /\ InitAdmin
    /\ InitConfig

----------------------------------------------------------------------------
(* Passive effects *)

\* variant: the effects return no cleanup function
ClearTimer_Missing(t) == t

\* return () => clearTimeout(t);  return () => clearInterval(timer)
ClearTimer(t) == NoTimer

\* 1 if the effect that held timer `old` starts a new timer while `old` is
\* still running after its cleanup
Orphaned(changed, starts, old) ==
    IF changed /\ starts /\ ClearTimer(old).live THEN 1 ELSE 0

\* useEffect(..., [loading]): if (!loading) return; setTimeout(..., 12000)
SlowEffect(old) ==
    IF ~SlowChanged THEN old
    ELSE IF ~loading THEN ClearTimer(old)
    ELSE [live |-> TRUE, len |-> 0, ms |-> SlowDelayMs, elapsed |-> 0]

\* useEffect(..., [slides.length, intervalMs]): if (slides.length <= 1) return;
\* setInterval(() => setCurrentIndex((prev) => (prev + 1) % slides.length), ms)
AdvanceEffect(old) ==
    IF ~AdvChanged THEN old
    ELSE IF Len(slides) <= 1 THEN ClearTimer(old)
    ELSE [live |-> TRUE, len |-> Len(slides), ms |-> TimerMs(intervalSeconds),
          elapsed |-> 0]

\* variant: loadSlides without setError(null)
LoadEffect_KeepsError ==
    IF ~LoadChanged
    THEN UNCHANGED << loading, error, loadingSlow, inflight, fetchCount >>
    ELSE IF slideshowType = "url"
    THEN /\ loading' = FALSE
         /\ UNCHANGED << error, loadingSlow, inflight, fetchCount >>
    ELSE /\ loading' = TRUE
         /\ loadingSlow' = FALSE
         /\ fetchCount' = fetchCount + 1
         /\ inflight' = inflight \cup {fetchCount + 1}
         /\ UNCHANGED error

\* variant: the load effect calls loadSlides whatever the slideshowType
LoadEffect_NoUrlCheck ==
    IF ~LoadChanged
    THEN UNCHANGED << loading, error, loadingSlow, inflight, fetchCount >>
    ELSE /\ loading' = TRUE
         /\ error' = NULL
         /\ loadingSlow' = FALSE
         /\ fetchCount' = fetchCount + 1
         /\ inflight' = inflight \cup {fetchCount + 1}

\* useEffect(..., [slideshowType, source]) followed by the synchronous head of
\* loadSlides up to axios.get
LoadEffect ==
    IF ~LoadChanged
    THEN UNCHANGED << loading, error, loadingSlow, inflight, fetchCount >>
    ELSE IF slideshowType = "url"
    THEN /\ loading' = FALSE
         /\ UNCHANGED << error, loadingSlow, inflight, fetchCount >>
    ELSE /\ loading' = TRUE
         /\ error' = NULL
         /\ loadingSlow' = FALSE
         /\ fetchCount' = fetchCount + 1
         /\ inflight' = inflight \cup {fetchCount + 1}

\* React runs the effects of the last commit whose dependencies changed
FlushEffects ==
    /\ EffectsPending
    /\ UNCHANGED << rendered, admin, config >>
    /\ LoadEffect
    /\ slowTimer' = SlowEffect(slowTimer)
    /\ advTimer' = AdvanceEffect(advTimer)
    /\ orphanTimers' = orphanTimers
            + Orphaned(SlowChanged, loading, slowTimer)
            + Orphaned(AdvChanged, Len(slides) > 1, advTimer)
    /\ effDeps' = [ran |-> TRUE, load |-> LoadDeps, slow |-> SlowDeps,
                   adv |-> AdvDeps]
    /\ lastEvent' = Event("FlushEffects", << >>, 0)
    /\ UNCHANGED << props, slides, currentIndex, mounted, propChanges >>

----------------------------------------------------------------------------
(* Network continuations of loadSlides *)

\* try branch after `await axios.get`: the response arrived with a 2xx status
FetchSuccess(f, r) ==
    /\ f \in inflight
    /\ UNCHANGED << rendered, admin, config >>
    /\ ~EffectsPending
    /\ inflight' = inflight \ {f}
    /\ IF ~mounted
       THEN /\ lastEvent' = Event("FetchSuccess", r.list,
                                  IF UsableSlides(r) THEN 3 ELSE 2)
            /\ UNCHANGED hooks
       ELSE /\ lastEvent' = Event("FetchSuccess", r.list, 0)
            /\ IF UsableSlides(r)
               THEN /\ slides' = r.list
                    /\ currentIndex' = 0
                    /\ loading' = FALSE
                    /\ UNCHANGED error
               ELSE /\ error' = NoSlidesMsg
                    /\ loading' = FALSE
                    /\ UNCHANGED << slides, currentIndex >>
            /\ UNCHANGED loadingSlow
    /\ UNCHANGED << props, mounted, effDeps, timers, fetchCount, propChanges >>

\* catch branch: network error, timeout or non-2xx status
FetchFail(f, detail, message) ==
    /\ f \in inflight
    /\ UNCHANGED << rendered, admin, config >>
    /\ ~EffectsPending
    /\ inflight' = inflight \ {f}
    /\ IF ~mounted
       THEN /\ lastEvent' = Event("FetchFail", << >>, 2)
            /\ UNCHANGED hooks
       ELSE /\ lastEvent' = Event("FetchFail", <<detail, message>>, 0)
            /\ error' = ErrorMessage(detail, message)
            /\ loading' = FALSE
            /\ UNCHANGED << slides, currentIndex, loadingSlow >>
    /\ UNCHANGED << props, mounted, effDeps, timers, fetchCount, propChanges >>

----------------------------------------------------------------------------
(* Timers *)

Due(t) == t.live /\ t.elapsed >= t.ms

\* setInterval callback: setCurrentIndex((prev) => (prev + 1) % slides.length),
\* slides.length being the value captured when the effect ran
Tick ==
    /\ mounted
    /\ UNCHANGED << rendered, admin, config >>
    /\ Due(advTimer)
    /\ currentIndex' = (currentIndex + 1) % advTimer.len
    /\ advTimer' = [advTimer EXCEPT !.elapsed = 0]
    /\ lastEvent' = Event("Tick", << >>, 0)
    /\ UNCHANGED << props, slides, loading, error, loadingSlow, mounted,
                    effDeps, slowTimer, orphanTimers, inflight, fetchCount,
                    propChanges >>

\* setTimeout callback: setLoadingSlow(true)
SlowTimeout ==
    /\ mounted
    /\ UNCHANGED << rendered, admin, config >>
    /\ Due(slowTimer)
    /\ loadingSlow' = TRUE
    /\ slowTimer' = NoTimer
    /\ lastEvent' = Event("SlowTimeout", << >>, 0)
    /\ UNCHANGED << props, slides, currentIndex, loading, error, mounted,
                    effDeps, advTimer, orphanTimers, inflight, fetchCount,
                    propChanges >>

Advance(t) == IF t.live THEN [t EXCEPT !.elapsed = t.elapsed + ClockStepMs] ELSE t

\* one clock step passes; a due timer callback and pending effects run first
Time ==
    /\ advTimer.live \/ slowTimer.live
    /\ UNCHANGED << rendered, admin, config >>
    /\ ~Due(advTimer) /\ ~Due(slowTimer)
    /\ ~EffectsPending
    /\ advTimer' = Advance(advTimer)
    /\ slowTimer' = Advance(slowTimer)
    /\ UNCHANGED orphanTimers
    /\ lastEvent' = Event("Time", << >>, 0)
    /\ UNCHANGED << props, hooks, mounted, effDeps, inflight, fetchCount,
                    propChanges >>

----------------------------------------------------------------------------
(* DOM events *)

\* variant: a broken slide is skipped instead of reported
ImageError_Skip ==
    /\ mounted
    /\ UNCHANGED << rendered, admin, config >>
    /\ ~EffectsPending
    /\ Phase = "Ready"
    /\ currentIndex' = (currentIndex + 1) % Len(slides)
    /\ lastEvent' = Event("ImageError", << >>, 0)
    /\ UNCHANGED << props, slides, error, loading, loadingSlow, mounted,
                    effDeps, timers, inflight, fetchCount, propChanges >>

\* <img onError>: setError('Failed to load slide image')
ImageError ==
    /\ mounted
    /\ UNCHANGED << rendered, admin, config >>
    /\ ~EffectsPending
    /\ Phase = "Ready"
    /\ error' = ImageErrorMsg
    /\ lastEvent' = Event("ImageError", << >>, 0)
    /\ UNCHANGED << props, slides, currentIndex, loading, loadingSlow, mounted,
                    effDeps, timers, inflight, fetchCount, propChanges >>

\* <iframe onError>: setError('Failed to load embed URL')
EmbedError ==
    /\ mounted
    /\ UNCHANGED << rendered, admin, config >>
    /\ ~EffectsPending
    /\ Phase = "Embed"
    /\ error' = EmbedErrorMsg
    /\ lastEvent' = Event("EmbedError", << >>, 0)
    /\ UNCHANGED << props, slides, currentIndex, loading, loadingSlow, mounted,
                    effDeps, timers, inflight, fetchCount, propChanges >>

\* <button onClick={onClose}>
Close ==
    /\ mounted
    /\ UNCHANGED << rendered, admin, config >>
    /\ CloseRendered
    /\ lastEvent' = Event("Close", << >>, 0)
    /\ UNCHANGED << props, hooks, mounted, effDeps, timers, inflight,
                    fetchCount, propChanges >>

----------------------------------------------------------------------------
(* The host *)

\* the host re-renders the player with another prop value
SetSource(s) ==
    /\ mounted
    /\ UNCHANGED << rendered, admin, config >>
    /\ ~EffectsPending
    /\ propChanges < MaxPropChanges
    /\ s # source
    /\ source' = s
    /\ propChanges' = propChanges + 1
    /\ lastEvent' = Event("SetSource", << >>, 0)
    /\ UNCHANGED << slideshowType, intervalSeconds, onClose, hooks, mounted,
                    effDeps, timers, inflight, fetchCount >>

SetType(t) ==
    /\ mounted
    /\ UNCHANGED << rendered, admin, config >>
    /\ ~EffectsPending
    /\ propChanges < MaxPropChanges
    /\ t # slideshowType
    /\ slideshowType' = t
    /\ propChanges' = propChanges + 1
    /\ lastEvent' = Event("SetType", << >>, 0)
    /\ UNCHANGED << source, intervalSeconds, onClose, hooks, mounted,
                    effDeps, timers, inflight, fetchCount >>

SetInterval(x) ==
    /\ mounted
    /\ UNCHANGED << rendered, admin, config >>
    /\ ~EffectsPending
    /\ propChanges < MaxPropChanges
    /\ x # intervalSeconds
    /\ intervalSeconds' = x
    /\ propChanges' = propChanges + 1
    /\ lastEvent' = Event("SetInterval", << >>, 0)
    /\ UNCHANGED << slideshowType, source, onClose, hooks, mounted,
                    effDeps, timers, inflight, fetchCount >>

\* the host removes the player: React runs every effect cleanup
Unmount ==
    /\ mounted
    /\ UNCHANGED << rendered, admin, config >>
    /\ mounted' = FALSE
    /\ advTimer' = ClearTimer(advTimer)
    /\ slowTimer' = ClearTimer(slowTimer)
    /\ UNCHANGED orphanTimers
    /\ lastEvent' = Event("Unmount", << >>, 0)
    /\ UNCHANGED << props, hooks, effDeps, inflight, fetchCount, propChanges >>

----------------------------------------------------------------------------

Next ==
    \/ FlushEffects
    \/ \E f \in inflight, r \in ResponseSlides : FetchSuccess(f, r)
    \/ \E f \in inflight, d \in Details, m \in Messages : FetchFail(f, d, m)
    \/ Tick
    \/ SlowTimeout
    \/ Time
    \/ ImageError
    \/ EmbedError
    \/ Close
    \/ \E s \in Sources : SetSource(s)
    \/ \E t \in SlideshowTypes : SetType(t)
    \/ \E x \in HostIntervals : SetInterval(x)
    \/ Unmount

Spec == Init /\ [][Next]_vars

----------------------------------------------------------------------------
(* Interval computation on its own: every raw interval input, one load     *)
(* that succeeds with a slide list, and the advance timer the effect then  *)
(* starts with the computed period.                                        *)

IntervalInputs ==
    {Undefined, NaN}
        \cup { Num(n) : n \in (0 - MaxIntervalInput)..MaxIntervalInput }

InitInterval ==
    /\ slideshowType = "file"
    /\ source \in Sources
    /\ intervalSeconds \in IntervalInputs
    /\ onClose \in BOOLEAN
    /\ InitHooks
    /\ InitRuntime
    /\ InitAdmin
    /\ InitConfig

NextInterval ==
    \/ FlushEffects
    \/ \E f \in inflight, l \in SlideLists : FetchSuccess(f, ArrayOf(l))

SpecInterval == InitInterval /\ [][NextInterval]_vars

----------------------------------------------------------------------------
(* Embed sources.  A string is a sequence of lexemes: WS is one whitespace *)
(* character, the other lexemes are the pieces the patterns of             *)
(* normalizeEmbedUrl tell apart.                                           *)

WS == " "
DQ == "\""
SQ == "'"
Quotes == {DQ, SQ}
SrcNames == {"src", "SRC"}
IframeOpens == {"<iframe", "<IFRAME"}
HttpPrefixes == {"http://", "https://"}

\* lexemes that contain the character '>'
HasGt(t) == t \in {">", "</iframe>"}

RECURSIVE TrimStart(_)
TrimStart(s) == IF s # << >> /\ Head(s) = WS THEN TrimStart(Tail(s)) ELSE s

RECURSIVE TrimEnd(_)
TrimEnd(s) ==
    IF s # << >> /\ s[Len(s)] = WS THEN TrimEnd(SubSeq(s, 1, Len(s) - 1)) ELSE s

\* String.prototype.trim
Trim(s) == TrimEnd(TrimStart(s))

\* url.startsWith('http://') || url.startsWith('https://')
StartsWithHttp(s) == s # << >> /\ Head(s) \in HttpPrefixes

NoMatch == [ok |-> FALSE, url |-> << >>]

\* \s* from position j: the first position that holds no whitespace
SkipWs(s, j) ==
    CHOOSE k \in j..(Len(s) + 1) :
        /\ \A i \in j..(k - 1) : s[i] = WS
        /\ k = Len(s) + 1 \/ s[k] # WS

\* /src\s*=\s*["']([^"']+)["']/i anchored at position j
AttrValue(s, j) ==
    LET k == SkipWs(s, j + 1)
        m == IF k <= Len(s) /\ s[k] = "=" THEN SkipWs(s, k + 1) ELSE 0
        ends == IF m > 0 /\ m <= Len(s) /\ s[m] \in Quotes
                THEN { e \in (m + 1)..Len(s) : s[e] \in Quotes }
                ELSE {}
        e == CHOOSE x \in ends : \A y \in ends : x <= y
    IN  IF j <= Len(s) /\ s[j] \in SrcNames /\ ends # {} /\ e > m + 1
        THEN [ok |-> TRUE, url |-> SubSeq(s, m + 1, e - 1)]
        ELSE NoMatch

\* raw.match(/src\s*=\s*["']([^"']+)["']/i): the leftmost match
AttrMatch(s) ==
    LET at == { j \in 1..Len(s) : AttrValue(s, j).ok }
    IN  IF at = {} THEN NoMatch
        ELSE AttrValue(s, CHOOSE j \in at : \A x \in at : j <= x)

\* positions of a src attribute that /<iframe[^>]*\ssrc.../ can reach from
\* the <iframe at position i
SrcAfterIframe(s, i) ==
    { j \in (i + 2)..Len(s) :
        /\ s[j - 1] = WS
        /\ \A x \in (i + 1)..(j - 1) : ~HasGt(s[x])
        /\ AttrValue(s, j).ok }

\* raw.match(/<iframe[^>]*\ssrc\s*=\s*["']([^"']+)["']/i): the leftmost
\* <iframe that has a match, and from it the greedy [^>]* (the last src)
IframeMatch(s) ==
    LET at == { i \in 1..Len(s) :
                    s[i] \in IframeOpens /\ SrcAfterIframe(s, i) # {} }
        i0 == CHOOSE i \in at : \A x \in at : i <= x
        js == SrcAfterIframe(s, i0)
    IN  IF at = {} THEN NoMatch
        ELSE AttrValue(s, CHOOSE j \in js : \A x \in js : j >= x)

\* variant: const raw = input || '' without trim()
NormalizeEmbedUrl_NoTrim(input) ==
    LET raw == input
        m1 == IframeMatch(raw)
        iframeMatch == IF m1.ok THEN m1 ELSE AttrMatch(raw)
        url == Trim(iframeMatch.url)
    IN  IF raw = << >> THEN << >>
        ELSE IF iframeMatch.ok /\ iframeMatch.url # << >> /\ StartsWithHttp(url)
        THEN url
        ELSE raw

\* function normalizeEmbedUrl(input: string): string
NormalizeEmbedUrl(input) ==
    LET raw == Trim(input)
        m1 == IframeMatch(raw)
        iframeMatch == IF m1.ok THEN m1 ELSE AttrMatch(raw)
        url == Trim(iframeMatch.url)
    IN  IF raw = << >> THEN << >>
        ELSE IF iframeMatch.ok /\ iframeMatch.url # << >> /\ StartsWithHttp(url)
        THEN url
        ELSE IF StartsWithHttp(raw) THEN raw
        ELSE raw

\* if (slideshowType === 'url') { const embedSrc = normalizeEmbedUrl(source);
\* ... <iframe src={embedSrc || source} ... /> }
RenderEmbed ==
    /\ mounted
    /\ slideshowType = "url"
    /\ embedSrc' = NormalizeEmbedUrl(source)
    /\ frameSrc' = IF embedSrc' # << >> THEN embedSrc' ELSE source
    /\ lastEvent' = Event("RenderEmbed", << >>, 0)
    /\ UNCHANGED << props, hooks, mounted, effDeps, timers, inflight,
                    fetchCount, propChanges, admin, config >>

\* the URL written between the quotes of the src attribute
EmbedUrls ==
    { <<"https://", "a">>, <<"http://", "a">>, <<WS, "https://", "a", WS>>,
      <<"//", "a">>, <<"/", "a">>, <<"a">>, <<"HTTPS://", "a">> }

\* what stands before the attribute, and after it
EmbedPrefixes ==
    { << >>, <<"<iframe", WS>>, <<"<IFRAME", WS, "w", WS>>,
      <<WS, "<iframe", WS>>, <<"<img", WS>>, <<"https://", "a", WS>> }
EmbedSuffixes == { << >>, <<">", "</iframe>">>, <<WS>> }
Equals == { <<"=">>, <<WS, "=", WS>> }

\* embed code with one attribute  name = q url q
EmbedCode(pre, name, eq, q, url, post) ==
    pre \o <<name>> \o eq \o <<q>> \o url \o <<q>> \o post

EmbedCodes ==
    { EmbedCode(pre, name, eq, q, url, post) :
        pre \in EmbedPrefixes, name \in SrcNames, eq \in Equals, q \in Quotes,
        url \in EmbedUrls, post \in EmbedSuffixes }

\* sources without a src attribute
PlainSources ==
    { << >>, <<WS>>, <<WS, WS>>, <<"a">>, <<WS, "a">>, <<"a", WS>>,
      <<WS, "a", WS>>, <<"a", WS, "b">>, <<"//", "a">>, <<WS, "/", "a", WS>>,
      <<"https://", "a">>, <<WS, "http://", "a", WS>>,
      <<"<iframe", WS, "w", ">">>, <<"src", "a">>, <<"src", "=", "a">>,
      <<"src", "=", DQ, DQ>> }

EmbedSources == EmbedCodes \cup PlainSources

InitEmbed ==
    /\ slideshowType = "url"
    /\ source \in EmbedSources
    /\ intervalSeconds \in HostIntervals
    /\ onClose \in BOOLEAN
    /\ InitHooks
    /\ InitRuntime
    /\ InitAdmin
    /\ InitConfig

NextEmbed ==
    \/ RenderEmbed
    \/ FlushEffects
    \/ EmbedError

SpecEmbed == InitEmbed /\ [][NextEmbed]_vars

----------------------------------------------------------------------------
(* Admin console: the operations that first call a no-auth dev endpoint    *)
(* and may then call the authenticated endpoint.  A response is its HTTP   *)
(* status; NoResponse stands for a network error or a timeout              *)
(* (err.response undefined).                                               *)

NoResponse == 0
Ok == 200
Unauthorized == 401
Forbidden == 403
NotFound == 404
MethodNotAllowed == 405
ServerError == 500
Pending == 0 - 1

Failures == {NoResponse, Unauthorized, Forbidden, NotFound, MethodNotAllowed,
             ServerError}
Statuses == {Ok} \cup Failures

\* catch (devError) { <authenticated request> }
EmployeeOps == {"employees.list", "employees.create", "employees.delete"}
\* dev PUT, PATCH on 405, then the same against the authenticated endpoint
EmployeeUpdate == "employees.update"
\* PostsPage.tsx: catch (devError) { // Try with auth
PostFromUrl == "posts.fromUrl"
\* the other copy of PostsPage: if (devError.response?.status === 404)
PostFromUrlOn404 == "posts.fromUrl.404"
PostDelete == "posts.delete"
\* if (devError.response?.status === 401 || devError.response?.status === 403)
SlideshowOps == {"slideshow.upload", "slideshow.setUrl", "slideshow.start",
                 "slideshow.stop"}
SlideshowFileDelete == "slideshow.fileDelete"

AdminOps ==
    EmployeeOps \cup SlideshowOps
        \cup {EmployeeUpdate, PostFromUrl, PostFromUrlOn404, PostDelete,
              SlideshowFileDelete}

\* what the catch block of the dev request does with a failure:
\* "auth" calls the authenticated endpoint, "patch" repeats the dev request
\* as PATCH, "local" updates the page without a request, "throw" gives up
OnDevFailure(op, status) ==
    IF op \in EmployeeOps \/ op = PostFromUrl THEN "auth"
    ELSE IF op = EmployeeUpdate
    THEN (IF status = MethodNotAllowed THEN "patch" ELSE "auth")
    ELSE IF op = PostFromUrlOn404
    THEN (IF status = NotFound THEN "auth" ELSE "throw")
    ELSE IF op \in {PostDelete, SlideshowFileDelete}
    THEN (IF status = NotFound THEN "local"
          ELSE IF status \in {Unauthorized, Forbidden} THEN "auth"
          ELSE "throw")
    ELSE (IF status \in {Unauthorized, Forbidden} THEN "auth" ELSE "throw")

Request(ep, verb) == [ep |-> ep, verb |-> verb, status |-> Pending]

\* the last request of the log gets its response
Settled(log, status) == [log EXCEPT ![Len(log)].status = status]

\* the handler is called: the request to the dev endpoint goes out
StartOp(op) ==
    /\ adminOp.pc \in {"idle", "done", "failed"}
    /\ adminOp' = [op |-> op, pc |-> "dev"]
    /\ adminLog' = << Request("dev", "first") >>
    /\ UNCHANGED << player, config, switchPage, postsPage >>

\* the dev request settles
DevSettles(status) ==
    /\ adminOp.pc = "dev"
    /\ LET todo == IF status = Ok THEN "done"
                   ELSE OnDevFailure(adminOp.op, status)
       IN  /\ adminOp' = [adminOp EXCEPT !.pc =
                  CASE todo = "done" -> "done"
                    [] todo = "local" -> "done"
                    [] todo = "patch" -> "devPatch"
                    [] todo = "auth" -> "auth"
                    [] OTHER -> "failed"]
           /\ adminLog' =
                  CASE todo = "patch" ->
                         Append(Settled(adminLog, status), Request("dev", "patch"))
                    [] todo = "auth" ->
                         Append(Settled(adminLog, status), Request("auth", "first"))
                    [] OTHER -> Settled(adminLog, status)
    /\ UNCHANGED << player, config, switchPage, postsPage >>

\* employee update: the dev PATCH settles; its failure reaches the outer
\* catch (devError), which calls the authenticated endpoint
DevPatchSettles(status) ==
    /\ adminOp.pc = "devPatch"
    /\ IF status = Ok
       THEN /\ adminOp' = [adminOp EXCEPT !.pc = "done"]
            /\ adminLog' = Settled(adminLog, status)
       ELSE /\ adminOp' = [adminOp EXCEPT !.pc = "auth"]
            /\ adminLog' =
                   Append(Settled(adminLog, status), Request("auth", "first"))
    /\ UNCHANGED << player, config, switchPage, postsPage >>

\* the authenticated request settles
AuthSettles(status) ==
    /\ adminOp.pc = "auth"
    /\ IF status = Ok
       THEN /\ adminOp' = [adminOp EXCEPT !.pc = "done"]
            /\ adminLog' = Settled(adminLog, status)
       ELSE IF adminOp.op = EmployeeUpdate /\ status = MethodNotAllowed
       THEN /\ adminOp' = [adminOp EXCEPT !.pc = "authPatch"]
            /\ adminLog' =
                   Append(Settled(adminLog, status), Request("auth", "patch"))
       ELSE /\ adminOp' = [adminOp EXCEPT !.pc = "failed"]
            /\ adminLog' = Settled(adminLog, status)
    /\ UNCHANGED << player, config, switchPage, postsPage >>

\* employee update: the authenticated PATCH settles
AuthPatchSettles(status) ==
    /\ adminOp.pc = "authPatch"
    /\ adminOp' = [adminOp EXCEPT !.pc = IF status = Ok THEN "done" ELSE "failed"]
    /\ adminLog' = Settled(adminLog, status)
    /\ UNCHANGED << player, config, switchPage, postsPage >>

\* the player is not part of the admin console
InitNoPlayer ==
    /\ slideshowType = "url"
    /\ source = << >>
    /\ intervalSeconds = Undefined
    /\ onClose = FALSE
    /\ InitHooks
    /\ InitRuntime

InitConsole ==
    /\ InitNoPlayer
    /\ InitAdmin
    /\ InitConfig

NextConsole ==
    \/ \E op \in AdminOps : StartOp(op)
    \/ \E status \in Statuses : DevSettles(status)
    \/ \E status \in Statuses : DevPatchSettles(status)
    \/ \E status \in Statuses : AuthSettles(status)
    \/ \E status \in Statuses : AuthPatchSettles(status)

SpecConsole == InitConsole /\ [][NextConsole]_vars

----------------------------------------------------------------------------
(* Base URL of the API client.  VITE_API_URL is a sequence of lexemes as   *)
(* the embed sources are: WS, "/", and the pieces between slashes.         *)

Slash == "/"
ApiPath == <<Slash, "api">>

RECURSIVE StripSlashes(_)
\* String(base).replace(/\/+$/, '')
StripSlashes(s) ==
    IF s # << >> /\ s[Len(s)] = Slash
    THEN StripSlashes(SubSeq(s, 1, Len(s) - 1))
    ELSE s

\* function getBaseURL(): string
GetBaseURL(base) ==
    IF base.set /\ Trim(base.str) # << >>
    THEN LET trimmed == StripSlashes(base.str)
         IN  IF trimmed # << >> THEN trimmed \o ApiPath ELSE ApiPath
    ELSE ApiPath

\* export const api = axios.create({ baseURL: getBaseURL(), ... })
LoadApiModule ==
    /\ baseURL = << >>
    /\ baseURL' = GetBaseURL(viteApiUrl)
    /\ UNCHANGED << viteApiUrl, player, admin >>

RECURSIVE Slashes(_)
Slashes(n) == IF n = 0 THEN << >> ELSE <<Slash>> \o Slashes(n - 1)

\* values the build may define VITE_API_URL with
EnvStrings ==
    { lead \o origin \o path \o Slashes(n) \o trail :
        lead \in {<< >>, <<WS>>},
        origin \in {<< >>, <<"http://h">>},
        path \in {<< >>, ApiPath, <<Slash, "v1">>},
        n \in 0..MaxTrailingSlashes,
        trail \in {<< >>, <<WS>>} }

EnvValues == {NoEnv} \cup { [set |-> TRUE, str |-> v] : v \in EnvStrings }

InitBaseURL ==
    /\ InitNoPlayer
    /\ InitAdmin
    /\ viteApiUrl \in EnvValues
    /\ baseURL = << >>

NextBaseURL == LoadApiModule

SpecBaseURL == InitBaseURL /\ [][NextBaseURL]_vars

----------------------------------------------------------------------------
(* Admin dashboard: SwitchScreenPage, the handlers that upload a file and  *)
(* start and stop the slideshow.  Every await of a request is a step of    *)
(* its own; the code that follows an await up to the next request runs in  *)
(* the step in which the response arrives.                                 *)

MaxCalls == 2

\* the File objects the FileUpload control hands to onFileSelect
Files == {"f1", "f2"}

\* response.data.file_url of a successful upload
UploadedUrl == "uploaded"
\* data.file_url of GET /admin/slideshow/current
CurrentUrl == "current"

\* the values typed or pasted into the embed URL input
EmbedInputs == { << >>, <<WS>>, <<"https://", "a">> }

AuthFailures == {Unauthorized, Forbidden}

\* function extractEmbedUrl(input: string): string
ExtractEmbedUrl(input) ==
    LET raw == Trim(input)
        m1 == IframeMatch(raw)
        iframeMatch == IF m1.ok THEN m1 ELSE AttrMatch(raw)
        url == Trim(iframeMatch.url)
    IN  IF raw = << >> THEN << >>
        ELSE IF iframeMatch.ok /\ iframeMatch.url # << >> /\ StartsWithHttp(url)
        THEN url
        ELSE IF StartsWithHttp(raw) THEN raw
        ELSE raw

\* the step of a handler: the response that arrived (ep, status), the request
\* it issued next and the toast it showed
SwitchEvent(kind, ep, status, issued, toast) ==
    [kind |-> kind, ep |-> ep, status |-> status, issued |-> issued,
     toast |-> toast]

\* calls is the bag of the invocations that await a response; an invocation
\* is the handler that was called and the request it waits for
Call(h, pc) == [h |-> h, pc |-> pc]
CanCall == BagCardinality(calls) < MaxCalls
\* a new invocation of handler h issues request pc
Invoke(h, pc) == calls (+) SetToBag({Call(h, pc)})
\* invocation c returns
Return(c) == calls (-) SetToBag({c})
\* invocation c issues its next request pc
Continue(c, pc) == Return(c) (+) SetToBag({Call(c.h, pc)})

\* {!uploadedPptUrl ? <FileUpload ... /> : file card}, inside the pdf tab,
\* once loadingCurrentFile is false
FileUploadRendered ==
    sourceType = "pdf" /\ ~loadingCurrentFile /\ uploadedPptUrl = NULL

\* Start button: disabled={(pdf && !pptFile && !uploadedPptUrl) ||
\*                         (powerbi && !embedUrl.trim()) || isUploadingPpt}
StartDisabled ==
    \/ sourceType = "pdf" /\ pptFile = NULL /\ uploadedPptUrl = NULL
    \/ sourceType = "powerbi" /\ Trim(embedUrl) = << >>
    \/ isUploadingPpt

\* useEffect(() => { api.get('admin/slideshow/current') ... finally
\* setLoadingCurrentFile(false) }, [])
CurrentFileLoaded(hasFile) ==
    /\ loadingCurrentFile
    /\ loadingCurrentFile' = FALSE
    /\ uploadedPptUrl' = IF hasFile THEN CurrentUrl ELSE uploadedPptUrl
    /\ switchEvent' = SwitchEvent("CurrentFileLoaded", "current",
                                  IF hasFile THEN Ok ELSE NotFound, "none", "none")
    /\ UNCHANGED << sourceType, pptFile, embedUrl, isUploadingPpt,
                    isSlideshowActive, slideIntervalSeconds, calls, storage,
                    persistDeps, mountItem >>
    /\ UNCHANGED << player, console, postsPage, config >>

\* <Tabs value={sourceType} onValueChange={(v) => setSourceType(v)}>
SetSourceType(t) ==
    /\ t # sourceType
    /\ sourceType' = t
    /\ switchEvent' = SwitchEvent("SetSourceType", "none", Pending, "none", "none")
    /\ UNCHANGED << pptFile, uploadedPptUrl, embedUrl, isUploadingPpt,
                    isSlideshowActive, slideIntervalSeconds, loadingCurrentFile,
                    calls, storage, persistDeps, mountItem >>
    /\ UNCHANGED << player, console, postsPage, config >>

\* <Input value={embedUrl} onChange={(e) => setEmbedUrl(e.target.value)} />
SetEmbedUrl(v) ==
    /\ sourceType = "powerbi"
    /\ v # embedUrl
    /\ embedUrl' = v
    /\ switchEvent' = SwitchEvent("SetEmbedUrl", "none", Pending, "none", "none")
    /\ UNCHANGED << sourceType, pptFile, uploadedPptUrl, isUploadingPpt,
                    isSlideshowActive, slideIntervalSeconds, loadingCurrentFile,
                    calls, storage, persistDeps, mountItem >>
    /\ UNCHANGED << player, console, postsPage, config >>

\* handlePptFileSelect(file): setPptFile(file); await uploadPptFile(file), and
\* uploadPptFile up to its first await: setIsUploadingPpt(true);
\* api.post('admin/slideshow/upload-dev', ...)
HandlePptFileSelect(file) ==
    /\ FileUploadRendered
    /\ pptFile = NULL
    /\ CanCall
    /\ pptFile' = file
    /\ isUploadingPpt' = TRUE
    /\ calls' = Invoke("handlePptFileSelect", "upload-dev")
    /\ switchEvent' = SwitchEvent("HandlePptFileSelect", "none", Pending,
                                  "upload-dev", "none")
    /\ UNCHANGED << sourceType, uploadedPptUrl, embedUrl, isSlideshowActive,
                    slideIntervalSeconds, loadingCurrentFile, storage,
                    persistDeps, mountItem >>
    /\ UNCHANGED << player, console, postsPage, config >>

\* onClear={() => { setPptFile(null); setUploadedPptUrl(null);
\*                  setUploadedFileName(null); }}
OnClear ==
    /\ FileUploadRendered
    /\ pptFile # NULL
    /\ pptFile' = NULL
    /\ uploadedPptUrl' = NULL
    /\ switchEvent' = SwitchEvent("OnClear", "none", Pending, "none", "none")
    /\ UNCHANGED << sourceType, embedUrl, isUploadingPpt, isSlideshowActive,
                    slideIntervalSeconds, loadingCurrentFile, calls, storage,
                    persistDeps, mountItem >>
    /\ UNCHANGED << player, console, postsPage, config >>

\* handleStartSlideshow up to its first await
HandleStartSlideshow ==
    /\ ~StartDisabled
    /\ CanCall
    /\ IF sourceType = "powerbi"
       THEN LET url == ExtractEmbedUrl(Trim(embedUrl))
            IN  IF url = << >>
                THEN \* toast.error('Please enter a Power BI embed URL'); return
                     /\ switchEvent' = SwitchEvent("HandleStartSlideshow", "none",
                                                   Pending, "none", "error")
                     /\ UNCHANGED << calls, isUploadingPpt >>
                ELSE \* await setSlideshowUrl(url): api.post('.../set-url-dev')
                     /\ calls' = Invoke("handleStartSlideshow", "set-url-dev")
                     /\ switchEvent' = SwitchEvent("HandleStartSlideshow", "none",
                                                   Pending, "set-url-dev", "none")
                     /\ UNCHANGED isUploadingPpt
       ELSE IF pptFile = NULL /\ uploadedPptUrl = NULL
            THEN \* toast.error('Please select a file to upload'); return
                 /\ switchEvent' = SwitchEvent("HandleStartSlideshow", "none",
                                               Pending, "none", "error")
                 /\ UNCHANGED << calls, isUploadingPpt >>
            ELSE IF pptFile # NULL /\ uploadedPptUrl = NULL
            THEN \* const uploadedUrl = await uploadPptFile(pptFile)
                 /\ isUploadingPpt' = TRUE
                 /\ calls' = Invoke("handleStartSlideshow", "upload-dev")
                 /\ switchEvent' = SwitchEvent("HandleStartSlideshow", "none",
                                               Pending, "upload-dev", "none")
            ELSE \* await api.post('admin/slideshow/start-dev', ...)
                 /\ calls' = Invoke("handleStartSlideshow", "start-dev")
                 /\ switchEvent' = SwitchEvent("HandleStartSlideshow", "none",
                                               Pending, "start-dev", "none")
                 /\ UNCHANGED isUploadingPpt
    /\ UNCHANGED << sourceType, pptFile, uploadedPptUrl, embedUrl,
                    isSlideshowActive, slideIntervalSeconds, loadingCurrentFile,
                    storage, persistDeps, mountItem >>
    /\ UNCHANGED << player, console, postsPage, config >>

\* uploadPptFile after a response to upload-dev or upload, and the caller's
\* code after `await uploadPptFile(...)`
UploadSettles(c, status) ==
    /\ BagIn(c, calls)
    /\ c.pc \in {"upload-dev", "upload"}
    /\ IF c.pc = "upload-dev" /\ status \in AuthFailures
       THEN \* response = await api.post('admin/slideshow/upload', ...)
            /\ calls' = Continue(c, "upload")
            /\ switchEvent' = SwitchEvent("UploadSettles", c.pc, status, "upload", "none")
            /\ UNCHANGED << uploadedPptUrl, isUploadingPpt >>
       ELSE IF status = Ok
       THEN \* setUploadedPptUrl(fileUrl); toast.success; finally
            \* setIsUploadingPpt(false); return fileUrl
            /\ uploadedPptUrl' = UploadedUrl
            /\ isUploadingPpt' = FALSE
            /\ IF c.h = "handleStartSlideshow"
               THEN /\ calls' = Continue(c, "start-dev")
                    /\ switchEvent' = SwitchEvent("UploadSettles", c.pc, status,
                                                  "start-dev", "success")
               ELSE /\ calls' = Return(c)
                    /\ switchEvent' = SwitchEvent("UploadSettles", c.pc, status,
                                                  "none", "success")
       ELSE \* toast.error(...); setIsUploadingPpt(false); return null
            /\ isUploadingPpt' = FALSE
            /\ calls' = Return(c)
            /\ switchEvent' = SwitchEvent("UploadSettles", c.pc, status, "none", "error")
            /\ UNCHANGED uploadedPptUrl
    /\ UNCHANGED << sourceType, pptFile, embedUrl, isSlideshowActive,
                    slideIntervalSeconds, loadingCurrentFile, storage,
                    persistDeps, mountItem >>
    /\ UNCHANGED << player, console, postsPage, config >>

\* setSlideshowUrl after a response to set-url-dev or set-url, and
\* handleStartSlideshow after `await setSlideshowUrl(url)`: the boolean that
\* setSlideshowUrl returns is not read
SetUrlSettles(c, status) ==
    /\ BagIn(c, calls)
    /\ c.pc \in {"set-url-dev", "set-url"}
    /\ IF c.pc = "set-url-dev" /\ status \in AuthFailures
       THEN \* await api.post('admin/slideshow/set-url', ...)
            /\ calls' = Continue(c, "set-url")
            /\ switchEvent' = SwitchEvent("SetUrlSettles", c.pc, status, "set-url", "none")
       ELSE IF status = Ok
       THEN \* return true; await api.post('admin/slideshow/start-dev', ...)
            /\ calls' = Continue(c, "start-dev")
            /\ switchEvent' = SwitchEvent("SetUrlSettles", c.pc, status, "start-dev", "none")
       ELSE IF c.pc = "set-url"
       THEN \* toast.error('Authentication required'); return false;
            \* await api.post('admin/slideshow/start-dev', ...)
            /\ calls' = Continue(c, "start-dev")
            /\ switchEvent' = SwitchEvent("SetUrlSettles", c.pc, status, "start-dev", "error")
       ELSE \* throw err; catch: toast.error(... 'Failed to start slideshow')
            /\ calls' = Return(c)
            /\ switchEvent' = SwitchEvent("SetUrlSettles", c.pc, status, "none", "error")
    /\ UNCHANGED switchHooks
    /\ UNCHANGED << storage, persistDeps, mountItem >>
    /\ UNCHANGED << player, console, postsPage, config >>

\* variant: the slideshow is marked active whatever the start request returned
StartSettles_ActiveAnyway(c, status) ==
    /\ BagIn(c, calls)
    /\ c.pc \in {"start-dev", "start"}
    /\ calls' = Return(c)
    /\ isSlideshowActive' = TRUE
    /\ switchEvent' = SwitchEvent("StartSettles", c.pc, status, "none",
                                  IF status = Ok THEN "success" ELSE "error")
    /\ UNCHANGED << sourceType, pptFile, uploadedPptUrl, embedUrl,
                    isUploadingPpt, slideIntervalSeconds, loadingCurrentFile,
                    storage, persistDeps, mountItem >>
    /\ UNCHANGED << player, console, postsPage, config >>

\* handleStartSlideshow after a response to start-dev or start
StartSettles(c, status) ==
    /\ BagIn(c, calls)
    /\ c.pc \in {"start-dev", "start"}
    /\ IF c.pc = "start-dev" /\ status \in AuthFailures
       THEN \* await api.post('admin/slideshow/start', ...)
            /\ calls' = Continue(c, "start")
            /\ switchEvent' = SwitchEvent("StartSettles", c.pc, status, "start", "none")
            /\ UNCHANGED isSlideshowActive
       ELSE IF status = Ok
       THEN \* setIsSlideshowActive(true); toast.success(...)
            /\ calls' = Return(c)
            /\ isSlideshowActive' = TRUE
            /\ switchEvent' = SwitchEvent("StartSettles", c.pc, status, "none", "success")
       ELSE \* throw; catch: toast.error(...)
            /\ calls' = Return(c)
            /\ switchEvent' = SwitchEvent("StartSettles", c.pc, status, "none", "error")
            /\ UNCHANGED isSlideshowActive
    /\ UNCHANGED << sourceType, pptFile, uploadedPptUrl, embedUrl,
                    isUploadingPpt, slideIntervalSeconds, loadingCurrentFile,
                    storage, persistDeps, mountItem >>
    /\ UNCHANGED << player, console, postsPage, config >>

\* handleStopSlideshow up to its first await; Stop button:
\* disabled={!isSlideshowActive}
HandleStopSlideshow ==
    /\ isSlideshowActive
    /\ CanCall
    /\ calls' = Invoke("handleStopSlideshow", "stop-dev")
    /\ switchEvent' = SwitchEvent("HandleStopSlideshow", "none", Pending,
                                  "stop-dev", "none")
    /\ UNCHANGED switchHooks
    /\ UNCHANGED << storage, persistDeps, mountItem >>
    /\ UNCHANGED << player, console, postsPage, config >>

\* handleStopSlideshow after a response to stop-dev or stop
StopSettles(c, status) ==
    /\ BagIn(c, calls)
    /\ c.pc \in {"stop-dev", "stop"}
    /\ IF c.pc = "stop-dev" /\ status \in AuthFailures
       THEN \* await api.post('admin/slideshow/stop')
            /\ calls' = Continue(c, "stop")
            /\ switchEvent' = SwitchEvent("StopSettles", c.pc, status, "stop", "none")
            /\ UNCHANGED isSlideshowActive
       ELSE IF status = Ok
       THEN \* setIsSlideshowActive(false); toast.success('Slideshow stopped')
            /\ calls' = Return(c)
            /\ isSlideshowActive' = FALSE
            /\ switchEvent' = SwitchEvent("StopSettles", c.pc, status, "none", "success")
       ELSE \* toast.error(...)
            /\ calls' = Return(c)
            /\ switchEvent' = SwitchEvent("StopSettles", c.pc, status, "none", "error")
            /\ UNCHANGED isSlideshowActive
    /\ UNCHANGED << sourceType, pptFile, uploadedPptUrl, embedUrl,
                    isUploadingPpt, slideIntervalSeconds, loadingCurrentFile,
                    storage, persistDeps, mountItem >>
    /\ UNCHANGED << player, console, postsPage, config >>

\* the page right after its first render; the mount effects that restore and
\* persist the stored state are the subject of SpecStored
InitSwitch ==
    /\ InitNoPlayer
    /\ InitAdminConsole
    /\ InitSwitchPage
    /\ InitPostsPage
    /\ InitConfig

NextSwitch ==
    \/ \E hasFile \in BOOLEAN : CurrentFileLoaded(hasFile)
    \/ \E t \in {"pdf", "powerbi"} : SetSourceType(t)
    \/ \E v \in EmbedInputs : SetEmbedUrl(v)
    \/ \E file \in Files : HandlePptFileSelect(file)
    \/ OnClear
    \/ HandleStartSlideshow
    \/ HandleStopSlideshow
    \/ \E c \in BagToSet(calls), status \in Statuses : UploadSettles(c, status)
    \/ \E c \in BagToSet(calls), status \in Statuses : SetUrlSettles(c, status)
    \/ \E c \in BagToSet(calls), status \in Statuses : StartSettles(c, status)
    \/ \E c \in BagToSet(calls), status \in Statuses : StopSettles(c, status)

SpecSwitch == InitSwitch /\ [][NextSwitch]_vars

----------------------------------------------------------------------------
(* SwitchScreenPage: the preferences kept in localStorage.  The restore    *)
(* effect and the persist effect both run after the first render, in the   *)
(* order in which they are declared; the persist effect runs again after   *)
(* every render in which one of its dependencies changed.                  *)

JString(v) == [t |-> "string", v |-> v]
JNumber(n) == [t |-> "number", n |-> n]

\* JSON.stringify({ sourceType, embedUrl, slideIntervalSeconds })
Stringify(state) ==
    [kind |-> "json", sourceType |-> JString(state.sourceType),
     embedUrl |-> JString(state.embedUrl),
     slideIntervalSeconds |-> JNumber(state.slideIntervalSeconds)]

\* an entry JSON.parse throws on
Garbage == [kind |-> "garbage"]

DefaultState == [sourceType |-> "pdf", embedUrl |-> << >>, slideIntervalSeconds |-> 5]

\* Math.max(1, Math.min(300, parsed.slideIntervalSeconds || 5))
StoredSeconds(n) == Max(1, Min(300, IF n = 0 THEN 5 ELSE n))

\* function loadStoredState(): StoredSwitchState
LoadStoredState(item) ==
    IF /\ item.kind = "json"
       /\ item.sourceType.t = "string"
       /\ item.embedUrl.t = "string"
       /\ item.slideIntervalSeconds.t = "number"
    THEN [sourceType |-> IF item.sourceType.v = "powerbi" THEN "powerbi" ELSE "pdf",
          embedUrl |-> item.embedUrl.v,
          slideIntervalSeconds |-> StoredSeconds(item.slideIntervalSeconds.n)]
    ELSE DefaultState

\* the values of the render: { sourceType, embedUrl, slideIntervalSeconds }
Preferences ==
    [sourceType |-> sourceType, embedUrl |-> embedUrl,
     slideIntervalSeconds |-> slideIntervalSeconds]

\* the mount effects have run
PageMounted == persistDeps # NotRun
\* a render whose persist effect has not run yet
PersistPending == PageMounted /\ persistDeps # Preferences

\* variant: no restore effect
Restore_Missing(item) == Preferences

\* useEffect(() => { const stored = loadStoredState(); setSourceType(...);
\* setEmbedUrl(...); setSlideIntervalSeconds(...); }, [])
Restore(item) == LoadStoredState(item)

\* the effects of the first render, in declaration order: the restore effect
\* queues the stored values, the persist effect saves the values of this
\* render
MountEffects ==
    /\ ~PageMounted
    /\ LET stored == Restore(storage)
       IN  /\ sourceType' = stored.sourceType
           /\ embedUrl' = stored.embedUrl
           /\ slideIntervalSeconds' = stored.slideIntervalSeconds
    /\ mountItem' = storage
    /\ storage' = Stringify(Preferences)
    /\ persistDeps' = Preferences
    /\ switchEvent' = SwitchEvent("MountEffects", "none", Pending, "none", "none")
    /\ UNCHANGED << pptFile, uploadedPptUrl, isUploadingPpt, isSlideshowActive,
                    loadingCurrentFile, calls >>
    /\ UNCHANGED << player, console, postsPage, config >>

\* useEffect(() => { saveStoredState({ sourceType, embedUrl,
\* slideIntervalSeconds }) }, [sourceType, embedUrl, slideIntervalSeconds])
PersistEffect ==
    /\ PersistPending
    /\ storage' = Stringify(Preferences)
    /\ persistDeps' = Preferences
    /\ switchEvent' = [switchEvent EXCEPT !.issued = "setItem"]
    /\ UNCHANGED << switchHooks, calls, mountItem >>
    /\ UNCHANGED << player, console, postsPage, config >>

\* the values typed into the slide interval input
SecondsInputs == {NaN, Num(0), Num(2), Num(400)}

\* onChange={(e) => setSlideIntervalSeconds(
\*     Math.max(1, Math.min(300, Number(e.target.value) || 5)))}
SetSlideIntervalSeconds(x) ==
    /\ sourceType = "pdf"
    /\ slideIntervalSeconds' = Max(1, Min(300, NumberOr5(x).val))
    /\ slideIntervalSeconds' # slideIntervalSeconds
    /\ switchEvent' = SwitchEvent("SetSlideIntervalSeconds", "none", Pending,
                                  "none", "none")
    /\ UNCHANGED << sourceType, pptFile, uploadedPptUrl, embedUrl,
                    isUploadingPpt, isSlideshowActive, loadingCurrentFile,
                    calls, storage, persistDeps, mountItem >>
    /\ UNCHANGED << player, console, postsPage, config >>

\* what saveStoredState can have written in an earlier visit
WrittenItems ==
    { Stringify([sourceType |-> t, embedUrl |-> v, slideIntervalSeconds |-> n]) :
        t \in {"pdf", "powerbi"}, v \in EmbedInputs, n \in {1, 2, 5, 300} }

\* entries of another origin: not JSON, a field of the wrong type, values out
\* of range
ForeignItems ==
    { Garbage,
      [Stringify(DefaultState) EXCEPT !.slideIntervalSeconds = JString(<<"5">>)],
      Stringify([sourceType |-> "video", embedUrl |-> << >>, slideIntervalSeconds |-> 0]),
      Stringify([sourceType |-> "powerbi", embedUrl |-> <<"https://", "a">>,
                 slideIntervalSeconds |-> 500]) }

StoredItems == {NoItem} \cup WrittenItems \cup ForeignItems

InitStored ==
    /\ InitNoPlayer
    /\ InitAdminConsole
    /\ InitPostsPage
    /\ InitConfig
    /\ InitSwitchHooks
    /\ calls = EmptyBag
    /\ switchEvent = NoSwitchEvent
    /\ storage \in StoredItems
    /\ persistDeps = NotRun
    /\ mountItem = NoItem

\* React runs the pending effects of a render before it handles an input event
NextStored ==
    \/ MountEffects
    \/ PersistEffect
    \/ PageMounted /\ ~PersistPending /\ \E t \in {"pdf", "powerbi"} : SetSourceType(t)
    \/ PageMounted /\ ~PersistPending /\ \E v \in EmbedInputs : SetEmbedUrl(v)
    \/ PageMounted /\ ~PersistPending /\ \E x \in SecondsInputs : SetSlideIntervalSeconds(x)

SpecStored == InitStored /\ [][NextStored]_vars

----------------------------------------------------------------------------
(* Admin dashboard: PostsPage, deleting a post.                            *)

MaxPosts == 3
MaxDeletes == 2

\* post ids are those of the backend's rows
PostIds == 1..MaxPosts

PostsEvent(kind, id, ep, status, toast) ==
    [kind |-> kind, id |-> id, ep |-> ep, status |-> status, toast |-> toast]

\* setPosts(allPosts), the posts the two dashboard endpoints returned
LoadPostsFromAPI(n) ==
    /\ postsEvent = NoPostsEvent
    /\ posts' = [i \in 1..n |-> i]
    /\ postsEvent' = PostsEvent("LoadPostsFromAPI", 0, "posts", Ok, "none")
    /\ UNCHANGED deletes
    /\ UNCHANGED << player, console, switchPage, config >>

\* prev.filter((p) => p.id !== id)
Without(prev, id) == SelectSeq(prev, LAMBDA p : p # id)

\* variant: every failure of the dev endpoint is taken as "already deleted"
DevDeleteOutcome_GoneOnAnyError(status) ==
    CASE status = Ok -> "deleted"
      [] status \in AuthFailures -> "authenticate"
      [] OTHER -> "gone"

\* what handleDelete does with the answer of DELETE /api/admin/posts/{id}/dev
DevDeleteOutcome(status) ==
    CASE status = Ok -> "deleted"
      [] status = NotFound -> "gone"
      [] status \in AuthFailures -> "authenticate"
      [] OTHER -> "throw"

\* onClick={() => handleDelete(post.id)}, up to the first await
HandleDelete(id) ==
    /\ \E i \in 1..Len(posts) : posts[i] = id
    /\ BagCardinality(deletes) < MaxDeletes
    /\ deletes' = deletes (+) SetToBag({[id |-> id, pc |-> "dev"]})
    /\ postsEvent' = PostsEvent("HandleDelete", id, "none", Pending, "none")
    /\ UNCHANGED posts
    /\ UNCHANGED << player, console, switchPage, config >>

\* handleDelete after the answer of the dev endpoint
DevDeleteSettles(c, status) ==
    /\ BagIn(c, deletes)
    /\ c.pc = "dev"
    /\ LET outcome == DevDeleteOutcome(status)
       IN  CASE outcome = "deleted" ->
                  \* setPosts(filter); toast.success('Post deleted successfully')
                  /\ posts' = Without(posts, c.id)
                  /\ deletes' = deletes (-) SetToBag({c})
                  /\ postsEvent' = PostsEvent("DeleteSettles", c.id, "dev", status, "success")
             [] outcome = "gone" ->
                  \* setPosts(filter); return
                  /\ posts' = Without(posts, c.id)
                  /\ deletes' = deletes (-) SetToBag({c})
                  /\ postsEvent' = PostsEvent("DeleteSettles", c.id, "dev", status, "none")
             [] outcome = "authenticate" ->
                  \* await axios.delete(`.../api/admin/posts/${id}`, ...)
                  /\ deletes' = (deletes (-) SetToBag({c}))
                                    (+) SetToBag({[id |-> c.id, pc |-> "auth"]})
                  /\ postsEvent' = PostsEvent("DeleteSettles", c.id, "dev", status, "none")
                  /\ UNCHANGED posts
             [] OTHER ->
                  \* throw devErr; catch: toast.error(... ?? 'Delete failed')
                  /\ deletes' = deletes (-) SetToBag({c})
                  /\ postsEvent' = PostsEvent("DeleteSettles", c.id, "dev", status, "error")
                  /\ UNCHANGED posts
    /\ UNCHANGED << player, console, switchPage, config >>

\* handleDelete after the answer of the authenticated endpoint
AuthDeleteSettles(c, status) ==
    /\ BagIn(c, deletes)
    /\ c.pc = "auth"
    /\ deletes' = deletes (-) SetToBag({c})
    /\ IF status = Ok
       THEN /\ posts' = Without(posts, c.id)
            /\ postsEvent' = PostsEvent("DeleteSettles", c.id, "auth", status, "success")
       ELSE /\ postsEvent' = PostsEvent("DeleteSettles", c.id, "auth", status, "error")
            /\ UNCHANGED posts
    /\ UNCHANGED << player, console, switchPage, config >>

InitPosts ==
    /\ InitNoPlayer
    /\ InitAdmin
    /\ InitConfig

NextPosts ==
    \/ \E n \in 0..MaxPosts : LoadPostsFromAPI(n)
    \/ \E id \in PostIds : HandleDelete(id)
    \/ \E c \in BagToSet(deletes), status \in Statuses : DevDeleteSettles(c, status)
    \/ \E c \in BagToSet(deletes), status \in Statuses : AuthDeleteSettles(c, status)

SpecPosts == InitPosts /\ [][NextPosts]_vars

----------------------------------------------------------------------------
(* Properties *)

FileMode == mounted /\ slideshowType = "file"

\* C1: in File mode, whenever the slide screen is shown (phase Ready, slide
\* set non-empty), currentIndex is a valid index: 0 <= currentIndex < |slides|,
\* also after a shorter list replaced the one an advance timer was built for.
C1_IndexInRange ==
    (FileMode /\ Phase = "Ready" /\ Len(slides) > 0)
        => (0 <= currentIndex /\ currentIndex < Len(slides))

\* C2: a firing of the advance timer while the player is in Loading,
\* SlowLoading or Error leaves currentIndex as it is; after an image error
\* moved a multi-slide player to Error, the index is never advanced again.
C2_AdvanceOnlyWhenReady ==
    [][ (lastEvent'.kind = "Tick" /\ FileMode
            /\ Phase \in {"Loading", "SlowLoading", "Error"})
        => currentIndex' = currentIndex ]_vars

\* C3: once the player is in Error, every step of the mount that neither
\* changes a prop nor runs the load effect of a changed prop (tick, 12 s
\* timer, late network callback, close click) leaves it in Error.
C3_ErrorAbsorbing ==
    [][ (FileMode /\ Phase = "Error" /\ props' = props /\ ~LoadChanged
            /\ mounted')
        => Phase' = "Error" ]_vars

\* C4: no handler calls a state setter of the component after the unmount.
C4_NoUpdateAfterUnmount == lastEvent.late = 0


\* C5: in File mode with unchanged props the component issues exactly one
\* slide-list fetch: none before the mount effect ran, one ever after,
\* whatever the outcome.
C5_ExactlyOneFetch ==
    (slideshowType = "file" /\ propChanges = 0)
        => fetchCount = (IF effDeps.ran THEN 1 ELSE 0)

\* reached: long after an image error, still the one fetch of the mount
C5_Witness ==
    /\ slideshowType = "file" /\ propChanges = 0
    /\ fetchCount = 1 /\ inflight = {}
    /\ error = ImageErrorMsg
    /\ lastEvent.kind = "Tick"

\* C6: a fetch that resolves with a non-empty slide list while the player is
\* in Loading or SlowLoading leaves SlideSet equal to that list,
\* currentIndex = 0 and the phase Ready (loading false, no error set).
C6_SuccessGivesReady ==
    [][ (lastEvent'.kind = "FetchSuccess" /\ lastEvent'.list # << >>
            /\ FileMode /\ Phase \in {"Loading", "SlowLoading"})
        => (/\ slides' = lastEvent'.list
            /\ currentIndex' = 0
            /\ ~loading'
            /\ error' = NULL
            /\ Phase' = "Ready") ]_vars

\* reached: the re-fetch after a source change resolved, after the 12 s hint,
\* with a full slide list, both requests of the mount being settled
C6_Witness ==
    /\ lastEvent.kind = "FetchSuccess" /\ Len(lastEvent.list) = MaxSlides
    /\ FileMode /\ Phase = "Ready"
    /\ slides = lastEvent.list /\ currentIndex = 0
    /\ fetchCount = 2 /\ inflight = {}
    /\ loadingSlow

\* C7: a fetch that fails, or succeeds without a usable slide list, moves the
\* player to Error with a non-empty message, never to Ready; for the
\* unusable list the message names the missing backend dependency.
C7_FailureGivesError ==
    [][ (FileMode /\ (\/ lastEvent'.kind = "FetchFail"
                      \/ (lastEvent'.kind = "FetchSuccess"
                            /\ lastEvent'.list = << >>)))
        => (/\ Phase' = "Error"
            /\ error' \notin {NULL, ""}
            /\ (lastEvent'.kind = "FetchSuccess" => error' = NoSlidesMsg)) ]_vars

\* C8: the slow-loading hint is raised only by the 12 s timer, never before
\* 12 s of loading and never twice; raising it leaves the request in flight;
\* a later fetch result moves SlowLoading directly to Ready (non-empty
\* list) or Error.
C8_SlowLoadingOnce ==
    [][ /\ (loadingSlow' /\ ~loadingSlow)
            => (lastEvent'.kind = "SlowTimeout"
                    /\ slowTimer.elapsed >= SlowDelayMs)
        /\ lastEvent'.kind = "SlowTimeout"
            => (~loadingSlow /\ inflight' = inflight /\ ~slowTimer'.live)
        /\ (FileMode /\ Phase = "SlowLoading"
                /\ lastEvent'.kind \in {"FetchSuccess", "FetchFail"})
            => Phase' = (IF lastEvent'.kind = "FetchSuccess"
                                /\ lastEvent'.list # << >>
                            THEN "Ready" ELSE "Error")
      ]_vars

\* clamp(x, 1, 300) for a number, 5 for anything else
ClampedInterval(x) == IF x.kind = "num" THEN Max(1, Min(300, x.val)) ELSE 5

\* C9: the period of the advance timer is clamp(x, 1, 300) seconds for a
\* numeric interval input x (0 gives 1 s, 1000 gives 300 s) and 5 seconds
\* for an input that is not a number.
C9_EffectiveInterval ==
    advTimer.live => advTimer.ms = 1000 * ClampedInterval(intervalSeconds)

\* C10: one firing of the advance timer at a valid index i of a slide set
\* of length n sets currentIndex to (i + 1) mod n and leaves the slide
\* set, the phase and the error as they are.
C10_TickAdvancesModulo ==
    [][ (lastEvent'.kind = "Tick" /\ Len(slides) > 0
            /\ currentIndex < Len(slides))
        => (/\ currentIndex' = (currentIndex + 1) % Len(slides)
            /\ slides' = slides
            /\ Phase' = Phase
            /\ error' = error) ]_vars


\* C11: while the slide set has at most one slide, no advance timer has been
\* started for it (a live timer can only be one that awaits its cleanup) and
\* currentIndex is 0.
C11_NoAdvanceForSingleSlide ==
    (mounted /\ Len(slides) <= 1)
        => (currentIndex = 0 /\ (advTimer.live => AdvChanged))


\* C12: with onClose supplied, the close control is available in Ready, in
\* Error and in Embed mode; without onClose it is available in no phase.
C12_CloseAvailable ==
    /\ (mounted /\ onClose /\ Phase \in {"Ready", "Error", "Embed"})
            => ENABLED Close
    /\ ~onClose => ~ENABLED Close

\* C13: an image load failure happens in Ready, moves the player to Error
\* with a message and leaves currentIndex and the slide set unchanged.
C13_ImageErrorFailStop ==
    [][ lastEvent'.kind = "ImageError"
        => (/\ Phase = "Ready"
            /\ Phase' = "Error"
            /\ Truthy(error')
            /\ currentIndex' = currentIndex
            /\ slides' = slides) ]_vars

\* reached: the last slide of a full list failed to load
C13_Witness ==
    /\ lastEvent.kind = "ImageError"
    /\ Phase = "Error"
    /\ Len(slides) = MaxSlides
    /\ currentIndex = MaxSlides - 1

\* C14: a player in Embed mode issues no slide-list fetch, and one that has
\* issued none never shows a loading screen, runs no advance timer, holds
\* no slides and keeps currentIndex = 0.
C14_EmbedModeIdle ==
    /\ [][ (slideshowType = "url" /\ slideshowType' = "url")
            => (fetchCount' = fetchCount /\ inflight' \subseteq inflight) ]_vars
    /\ [] ( (slideshowType = "url" /\ fetchCount = 0)
            => (/\ Phase = "Embed"
                /\ ~advTimer.live
                /\ slides = << >>
                /\ currentIndex = 0) )

\* reached: an Embed-mode player whose source changed and whose effects ran
C14_Witness ==
    /\ mounted /\ slideshowType = "url"
    /\ propChanges = 1 /\ ~EffectsPending
    /\ fetchCount = 0
    /\ ~loading
    /\ lastEvent.kind = "EmbedError"

\* C15: whenever the embed source holds an attribute src="<url>" or
\* src='<url>' (name in any letter case), normalizeEmbedUrl returns exactly
\* <url>, be it absolute, protocol-relative or relative.
C15_ExtractsAttributeUrl ==
    lastEvent.kind = "RenderEmbed"
        => \A pre \in EmbedPrefixes, name \in SrcNames, eq \in Equals,
              q \in Quotes, url \in EmbedUrls, post \in EmbedSuffixes :
                source = EmbedCode(pre, name, eq, q, url, post)
                    => embedSrc = url

\* the source has no src attribute and is not an absolute URL
PlainNotAbsolute == source \in PlainSources /\ ~StartsWithHttp(TrimStart(source))

\* t is s without its leading and trailing whitespace
IsTrimOf(t, s) ==
    /\ t # << >> => t[1] # WS /\ t[Len(t)] # WS
    /\ \E i \in 1..(Len(s) + 1), j \in 0..Len(s) :
          /\ t = SubSeq(s, i, j)
          /\ \A k \in (1..(i - 1)) \cup ((j + 1)..Len(s)) : s[k] = WS

C17_ErrorMessagePreference ==
    (lastEvent.kind = "FetchFail" /\ lastEvent.late = 0)
        => LET detail == lastEvent.list[1]
               message == lastEvent.list[2]
           IN  /\ detail # NULL => error = detail
               /\ (detail = NULL /\ message # NULL) => error = message
               /\ (detail = NULL /\ message = NULL) => error = GenericMsg
               /\ error = GenericMsg => (detail = NULL /\ message = NULL)

C17_Witness ==
    /\ lastEvent.kind = "FetchFail"
    /\ lastEvent.list = <<"Conversion failed", "Network Error">>
    /\ error = "Conversion failed"
    /\ Phase = "Error"

\* C18: when the source of a mounted File-mode player changes, the previous
\* slide set is discarded: once the load for the new source has started the
\* component holds no slides and runs no advance timer, and a new fetch
\* that fails or returns an empty list leaves it that way.
C18_SourceChangeDiscards ==
    [][ /\ (FileMode /\ lastEvent.kind = "SetSource"
                /\ lastEvent'.kind = "FlushEffects")
            => (slides' = << >> /\ ~advTimer'.live)
        /\ (FileMode /\ slides = << >>
                /\ (\/ lastEvent'.kind = "FetchFail"
                    \/ (lastEvent'.kind = "FetchSuccess"
                            /\ lastEvent'.list = << >>)))
            => slides' = << >>
      ]_vars

\* C19: in every admin-console operation with a dev and an authenticated
\* endpoint, the authenticated request goes out only after the dev request
\* failed with status 401, 403 or 404; after any other dev failure no
\* authenticated request is issued.
C19_FallbackOnlyOnAuthStatus ==
    \A i \in 1..Len(adminLog) :
        (adminLog[i].ep = "auth" /\ adminLog[i].verb = "first")
            => /\ i > 1
               /\ adminLog[i - 1].ep = "dev"
               /\ adminLog[i - 1].status \in {Unauthorized, Forbidden, NotFound}

\* number of places where s reads "/api"
ApiCount(s) ==
    Cardinality({ i \in 1..(Len(s) - 1) : SubSeq(s, i, i + 1) = ApiPath })

\* C20: whatever VITE_API_URL is (unset, empty, whitespace, an origin with
\* trailing slashes, a URL already ending in /api), the base URL ends with
\* /api, has no trailing slash and contains /api exactly once; without a
\* usable value it is exactly /api.
C20_BaseUrlHasApiOnce ==
    baseURL # << >>
        => /\ Len(baseURL) >= 2
           /\ SubSeq(baseURL, Len(baseURL) - 1, Len(baseURL)) = ApiPath
           /\ ApiCount(baseURL) = 1
           /\ (~viteApiUrl.set \/ \A k \in 1..Len(viteApiUrl.str) :
                                    viteApiUrl.str[k] = WS)
                  => baseURL = ApiPath

\* C21: the slow-loading hint is raised only while loading is in progress:
\* loadingSlow never becomes true in a step where loading is already false
\* or the component is unmounted, and the 12 s timer is not live once the
\* effects of the end of loading have run, nor after unmount.
C21_SlowHintOnlyWhileLoading ==
    /\ [][ (loadingSlow' /\ ~loadingSlow) => (loading /\ mounted) ]_vars
    /\ [] ( (~loading /\ ~EffectsPending) => ~slowTimer.live )
    /\ [] ( ~mounted => ~slowTimer.live )

\* C22: at most one advance timer and at most one slow-loading timer are
\* active, none after unmount: a timer is cancelled on unmount and when the
\* slide count or the interval changes, before its replacement is started,
\* so the live advance timer is the one of the current slide count and
\* interval.
C22_TimersCancelled ==
    /\ orphanTimers = 0
    /\ ~mounted => (~advTimer.live /\ ~slowTimer.live)
    /\ (mounted /\ ~EffectsPending)
          => /\ advTimer.live <=> Len(slides) > 1
             /\ advTimer.live
                   => /\ advTimer.len = Len(slides)
                      /\ advTimer.ms = TimerMs(intervalSeconds)
             /\ slowTimer.live => loading

C22_Witness ==
    /\ mounted /\ ~EffectsPending
    /\ propChanges = 1
    /\ lastEvent.kind = "FlushEffects"
    /\ advTimer.live /\ advTimer.elapsed = 0
    /\ fetchCount = 2 /\ inflight = {}

\* C23: whenever intervalSeconds changes or the slide set is replaced (by a
\* list of the same length too) while an advance timer is live, the old
\* timer is torn down and a new one started: a restart is pending after the
\* change, the restarted timer begins a full interval, and the old timer
\* does not advance the index in between.
C23_ChangeRestartsTimer ==
    [][ /\ (mounted /\ advTimer.live /\ Len(slides') > 1
                /\ (intervalSeconds' # intervalSeconds \/ slides' # slides))
            => AdvChanged'
        /\ (mounted /\ AdvChanged /\ advTimer.live /\ Len(slides) > 1)
            => /\ lastEvent'.kind # "Tick"
               /\ lastEvent'.kind = "FlushEffects"
                     => (advTimer'.live /\ advTimer'.elapsed = 0
                            /\ advTimer'.ms = TimerMs(intervalSeconds))
      ]_vars

\* C24: for every intervalSeconds input (0, negative, above 300, not a
\* number, undefined) the period of the advance timer is
\* max(1000, effective interval * 1000) ms and lies in [1000, 300000].
C24_PeriodInRange ==
    advTimer.live
        => LET effective == IntervalSec(intervalSeconds)
           IN  /\ advTimer.ms = Max(1000, effective * 1000)
               /\ advTimer.ms >= 1000
               /\ advTimer.ms <= 300000

C24_Witness ==
    /\ advTimer.live
    /\ intervalSeconds = Num(MaxIntervalInput)
    /\ advTimer.ms = 300000

\* C25: in File mode with unchanged props the state loading = false,
\* error = null, slides empty is unreachable: the player is always in one
\* of Loading, SlowLoading, Ready, Error, and the separate 'No slides
\* found' screen is never shown.
C25_NoSlidesScreenUnreachable ==
    (FileMode /\ propChanges = 0)
        => /\ ~(~loading /\ error = NULL /\ slides = << >>)
           /\ Phase \in {"Loading", "SlowLoading", "Ready", "Error"}

\* the requests uploadPptFile has in flight
UploadsInFlight == { c \in BagToSet(calls) : c.pc \in {"upload-dev", "upload"} }

\* C26: with source type Power BI, handleStartSlideshow issues a start request
\* only after set-url-dev or set-url stored the embed URL successfully; when
\* storing failed on both endpoints no start request is issued and
\* isSlideshowActive is left as it is.
C26_StartOnlyAfterUrlStored ==
    [][ /\ (switchEvent'.kind = "SetUrlSettles" /\ switchEvent'.issued = "start-dev")
            => switchEvent'.status = Ok
        /\ (switchEvent'.kind = "SetUrlSettles" /\ switchEvent'.ep = "set-url"
                /\ switchEvent'.status # Ok)
            => /\ switchEvent'.issued = "none"
               /\ isSlideshowActive' = isSlideshowActive ]_vars

\* C27: isSlideshowActive becomes true only in a step in which start-dev or
\* start returned success, becomes false only in a step in which stop-dev or
\* stop returned success, and every step of handleStartSlideshow or
\* handleStopSlideshow that reports an error leaves it unchanged.
C27_ActiveFollowsSuccess ==
    [][ /\ (isSlideshowActive' /\ ~isSlideshowActive)
            => /\ switchEvent'.kind = "StartSettles"
               /\ switchEvent'.ep \in {"start-dev", "start"}
               /\ switchEvent'.status = Ok
        /\ (~isSlideshowActive' /\ isSlideshowActive)
            => /\ switchEvent'.kind = "StopSettles"
               /\ switchEvent'.ep \in {"stop-dev", "stop"}
               /\ switchEvent'.status = Ok
        /\ switchEvent'.toast = "error"
            => isSlideshowActive' = isSlideshowActive ]_vars

\* a start request was answered with an error while the slideshow was active
\* (it had been started before), and the slideshow is still active
C27_Witness ==
    /\ isSlideshowActive
    /\ switchEvent.kind = "StartSettles"
    /\ switchEvent.ep = "start"
    /\ switchEvent.status = ServerError
    /\ switchEvent.toast = "error"

\* C28: isUploadingPpt is true whenever an upload request of uploadPptFile is
\* in flight and false once every uploadPptFile call has returned, also when
\* two calls overlap.
C28_UploadingWhileInFlight ==
    isUploadingPpt <=> UploadsInFlight # {}

\* a stored state the page itself can have saved: the three fields with their
\* types, a source type of the page and an interval of 1 to 300 seconds
ValidStored(item) ==
    /\ item.kind = "json"
    /\ item.sourceType.t = "string" /\ item.sourceType.v \in {"pdf", "powerbi"}
    /\ item.embedUrl.t = "string"
    /\ item.slideIntervalSeconds.t = "number"
    /\ item.slideIntervalSeconds.n >= 1 /\ item.slideIntervalSeconds.n <= 300

\* the mount effects and the renders they caused are done, nothing was edited
MountSettled ==
    /\ PageMounted
    /\ ~PersistPending
    /\ switchEvent.kind = "MountEffects"

\* C29: when localStorage holds a valid stored state S at mount, then after
\* the restore effect, the persist effect and the renders they cause, the
\* component state and the localStorage entry both equal S.
C29_StoredStateRestored ==
    (MountSettled /\ ValidStored(mountItem))
        => /\ Stringify(Preferences) = mountItem
           /\ storage = mountItem

\* the page was mounted over stored Power BI preferences (not the defaults):
\* the persist effect first saved the defaults, then the restored values
C29_Witness ==
    /\ MountSettled
    /\ ValidStored(mountItem)
    /\ mountItem # Stringify(DefaultState)
    /\ switchEvent.issued = "setItem"
    /\ sourceType = "powerbi"
    /\ slideIntervalSeconds = 300

\* the backend confirmed the deletion, or the dev endpoint does not know the post
DeletionAnswered(e) ==
    \/ e.status = Ok
    \/ e.ep = "dev" /\ e.status = NotFound

\* C30: handleDelete removes a post from the list only when a delete request
\* succeeded or the dev endpoint answered 404, and then exactly that post; on
\* every other failure the list is unchanged and an error is reported; the
\* success toast is shown only when a delete request succeeded.
C30_DeleteOnlyWhenConfirmed ==
    [][ /\ Len(posts') < Len(posts)
            => /\ postsEvent'.kind = "DeleteSettles"
               /\ DeletionAnswered(postsEvent')
               /\ posts' = Without(posts, postsEvent'.id)
        /\ (postsEvent'.kind = "DeleteSettles" /\ ~DeletionAnswered(postsEvent')
               /\ ~(postsEvent'.ep = "dev" /\ postsEvent'.status \in AuthFailures))
            => /\ posts' = posts
               /\ postsEvent'.toast = "error"
        /\ postsEvent'.toast = "success" => postsEvent'.status = Ok ]_vars

\* a post was removed after the dev endpoint refused and the authenticated
\* delete succeeded, while another delete is still waiting
C30_Witness ==
    /\ postsEvent.kind = "DeleteSettles"
    /\ postsEvent.ep = "auth"
    /\ postsEvent.status = Ok
    /\ postsEvent.toast = "success"
    /\ Len(posts) = MaxPosts - 1
    /\ \A i \in 1..Len(posts) : posts[i] # postsEvent.id
    /\ deletes # EmptyBag


============================================================================
